---- MODULE Spec2Model ----
(***************************************************************************)
(* Model of src/etl/etl.py: the sales ETL pipeline.                        *)
(*   extrair_dados -> transformar_dados -> criar_banco_dados/criar_tabelas *)
(*   -> carregar_dados (row-by-row upserts, one commit) -> close           *)
(* Text is a sequence of one-character strings.  A cell of a DataFrame is  *)
(* a tagged record, so that None / NaN / NaT are values of their own.      *)
(***************************************************************************)
EXTENDS Integers, Sequences, FiniteSets, TLC

(* ------------------------------ bounds -------------------------------- *)
\* longest run of digits put in a generated document
MaxDigits == 15
\* most rows of one sheet in one run of the pipeline
MaxRows == 2

(* --------------------------- cell values ------------------------------ *)
\* text-like cells: kind is "none" (None), "nan" (float NaN), "str", "int"
\* or "float"; chars holds the text, or the decimal digits of a number
Cell(k, cs) == [kind |-> k, chars |-> cs]
None == Cell("none", <<>>)
NaN == Cell("nan", <<>>)
Text(cs) == Cell("str", cs)

\* numeric cells of the derived columns mes_venda / ano_venda
Num(n) == [kind |-> "num", n |-> n]
NumNaN == [kind |-> "nan", n |-> 0]

\* datetime64 cells
Date(y, m, d) == [kind |-> "date", y |-> y, m |-> m, d |-> d]
NaT == [kind |-> "nat", y |-> 0, m |-> 0, d |-> 0]

(* ------------------------ Python / pandas helpers --------------------- *)
DecimalDigits == <<"0", "1", "2", "3", "4", "5", "6", "7", "8", "9">>

\* str.isdigit: the decimal digits, and also digit-like characters such as
\* the superscript two
str_isdigit(c) == c \in {"0", "1", "2", "3", "4", "5", "6", "7", "8", "9", "²"}

LowerLetters == <<"a", "c", "d", "e", "f", "i", "j", "l", "m", "o", "r", "s", "t", "u">>
UpperLetters == <<"A", "C", "D", "E", "F", "I", "J", "L", "M", "O", "R", "S", "T", "U">>

IndexOf(c, letters) == CHOOSE k \in 1..Len(letters) : letters[k] = c
IsOneOf(c, letters) == \E k \in 1..Len(letters) : letters[k] = c

upper_char(c) == IF IsOneOf(c, LowerLetters) THEN UpperLetters[IndexOf(c, LowerLetters)] ELSE c
lower_char(c) == IF IsOneOf(c, UpperLetters) THEN LowerLetters[IndexOf(c, UpperLetters)] ELSE c

\* pd.isna(x), which is also true of None
pd_isna(v) == v.kind \in {"none", "nan"}

\* Series.fillna(value): only missing cells are replaced
fillna(v, value) == IF pd_isna(v) THEN value ELSE v

\* Series.str.upper() / .str.lower(): a cell that is not a string gives NaN
str_upper(v) == IF v.kind = "str" THEN Text([k \in 1..Len(v.chars) |-> upper_char(v.chars[k])]) ELSE NaN
str_lower(v) == IF v.kind = "str" THEN Text([k \in 1..Len(v.chars) |-> lower_char(v.chars[k])]) ELSE NaN

\* str(doc): a float prints with its fractional part
str(v) == IF v.kind = "float" THEN v.chars \o <<".", "0">> ELSE v.chars

\* ''.join(filter(str.isdigit, s))
RECURSIVE join_filter_isdigit(_)
join_filter_isdigit(s) ==
    IF s = <<>> THEN <<>>
    ELSE IF str_isdigit(Head(s)) THEN <<Head(s)>> \o join_filter_isdigit(Tail(s))
    ELSE join_filter_isdigit(Tail(s))

\* Python slice s[a:b] for 0 <= a <= b
Slice(s, a, b) == SubSeq(s, a + 1, IF b < Len(s) THEN b ELSE Len(s))

FISICA == <<"F", "I", "S", "I", "C", "A">>
JURIDICA == <<"J", "U", "R", "I", "D", "I", "C", "A">>
email == <<"e", "m", "a", "i", "l">>

(* ------------------------- formatar_documento ------------------------- *)
\* variant: the empty string is not tested for
doc_ausente_sem_vazio(doc) == pd_isna(doc) \/ doc.kind = "none"

\* the guard of the early return
doc_ausente(doc) == pd_isna(doc) \/ doc.kind = "none" \/ doc = Text(<<>>)

\* variant: the last group starts one character late
formata_cpf_grupo_curto(d) ==
    Slice(d, 0, 3) \o <<".">> \o Slice(d, 3, 6) \o <<".">> \o Slice(d, 6, 9) \o <<"-">> \o Slice(d, 10, Len(d))

formata_cpf(d) ==
    Slice(d, 0, 3) \o <<".">> \o Slice(d, 3, 6) \o <<".">> \o Slice(d, 6, 9) \o <<"-">> \o Slice(d, 9, Len(d))

\* variant: the branch separator is a dot
formata_cnpj_ponto(d) ==
    Slice(d, 0, 2) \o <<".">> \o Slice(d, 2, 5) \o <<".">> \o Slice(d, 5, 8) \o <<".">>
        \o Slice(d, 8, 12) \o <<"-">> \o Slice(d, 12, Len(d))

formata_cnpj(d) ==
    Slice(d, 0, 2) \o <<".">> \o Slice(d, 2, 5) \o <<".">> \o Slice(d, 5, 8) \o <<"/">>
        \o Slice(d, 8, 12) \o <<"-">> \o Slice(d, 12, Len(d))

\* variant: the number of digits is not tested
formatar_documento_sem_len(doc, tipo) ==
    IF doc_ausente(doc) THEN None
    ELSE LET doc_limpo == join_filter_isdigit(str(doc))
         IN IF tipo = Text(FISICA) THEN Text(formata_cpf(doc_limpo))
            ELSE IF tipo = Text(JURIDICA) THEN Text(formata_cnpj(doc_limpo))
            ELSE Text(doc_limpo)

formatar_documento(doc, tipo) ==
    IF doc_ausente(doc) THEN None
    ELSE LET doc_limpo == join_filter_isdigit(str(doc))
         IN IF tipo = Text(FISICA) /\ Len(doc_limpo) = 11 THEN Text(formata_cpf(doc_limpo))
            ELSE IF tipo = Text(JURIDICA) /\ Len(doc_limpo) = 14 THEN Text(formata_cnpj(doc_limpo))
            ELSE Text(doc_limpo)

(* --------------------------- transformar_dados ------------------------ *)
\* variant: the tag is filled but not put in upper case
normaliza_tipo_pessoa_sem_upper(v) == fillna(v, Text(FISICA))

normaliza_tipo_pessoa(v) == str_upper(fillna(v, Text(FISICA)))
normaliza_tipo_contato(v) == str_lower(fillna(v, Text(email)))

\* Series.round(2) of an amount kept in thousandths (half to even)
round2(v) ==
    LET q == v \div 10
        r == v % 10
    IN  IF r < 5 THEN 10 * q
        ELSE IF r > 5 THEN 10 * (q + 1)
        ELSE 10 * (q + (q % 2))

\* Series.dt.month / .dt.year of a datetime64 column: NaT gives NaN
dt_month(d) == IF d.kind = "date" THEN Num(d.m) ELSE NumNaN
dt_year(d) == IF d.kind = "date" THEN Num(d.y) ELSE NumNaN

CONCLUIDA == "CONCLUÍDA"

transforma_cliente(c, hoje) ==
    LET tipo == normaliza_tipo_pessoa(c.tipo_pessoa)
    IN  [id_cliente |-> c.id_cliente,
         nome |-> c.nome,
         documento |-> c.documento,
         tipo_pessoa |-> tipo,
         tipo_contato |-> normaliza_tipo_contato(c.tipo_contato),
         documento_formatado |-> formatar_documento(c.documento, tipo),
         data_cadastro |-> hoje]

transforma_venda(v) ==
    [id_venda |-> v.id_venda,
     id_cliente |-> v.id_cliente,
     data_venda |-> v.data_venda,
     valor |-> round2(v.valor),
     mes_venda |-> dt_month(v.data_venda),
     ano_venda |-> dt_year(v.data_venda),
     status_venda |-> CONCLUIDA]

\* the two frames are transformed column by column: every row is kept, in place
transforma_clientes(df, hoje) == [k \in 1..Len(df) |-> transforma_cliente(df[k], hoje)]
\* variant: rows without a date are dropped
transforma_vendas_dropna(df) ==
    LET com_data == SelectSeq(df, LAMBDA v : v.data_venda.kind = "date")
    IN  [k \in 1..Len(com_data) |-> transforma_venda(com_data[k])]

transforma_vendas(df) == [k \in 1..Len(df) |-> transforma_venda(df[k])]

(* ------------------------------ the store ----------------------------- *)
\* CREATE TABLE clientes: VARCHAR(n) columns reject longer text
viola_clientes(row) ==
    \/ Len(str(row.documento)) > 20
    \/ Len(row.documento_formatado.chars) > 20
    \/ Len(row.tipo_pessoa.chars) > 10
    \/ Len(row.tipo_contato.chars) > 10

\* variant: the date columns of vendas accept missing values
viola_vendas_sem_not_null(row, tab_clientes) ==
    ~ \E c \in tab_clientes : c.id_cliente = row.id_cliente

\* CREATE TABLE vendas: NOT NULL date and date parts, FOREIGN KEY (id_cliente)
viola_vendas(row, tab_clientes) ==
    \/ row.data_venda.kind # "date"
    \/ row.mes_venda.kind # "num"
    \/ row.ano_venda.kind # "num"
    \/ ~ \E c \in tab_clientes : c.id_cliente = row.id_cliente

\* variant: ON CONFLICT (id_cliente) DO NOTHING
upsert_cliente_do_nothing(tab, row) ==
    IF \E r \in tab : r.id_cliente = row.id_cliente THEN tab ELSE tab \cup {row}

\* INSERT ... ON CONFLICT (id_cliente) DO UPDATE SET <every other column>
upsert_cliente(tab, row) ==
    IF \E r \in tab : r.id_cliente = row.id_cliente
    THEN {IF r.id_cliente = row.id_cliente THEN row ELSE r : r \in tab}
    ELSE tab \cup {row}

\* INSERT ... ON CONFLICT (id_venda) DO UPDATE SET <every other column>
upsert_venda(tab, row) ==
    IF \E r \in tab : r.id_venda = row.id_venda
    THEN {IF r.id_venda = row.id_venda THEN row ELSE r : r \in tab}
    ELSE tab \cup {row}

\* variant: every statement is committed on its own
autocommit_ligado == TRUE

\* the connection carregar_dados writes through is opened without
\* set_isolation_level: statements stay in one open transaction
autocommit == FALSE

\* variant: the loop over df_vendas comes first
StageOrder_vendas_primeiro == <<"load_vendas", "load_clientes">>

\* the order of the two loops of carregar_dados
StageOrder == <<"load_clientes", "load_vendas">>

(* ------------------------------- inputs ------------------------------- *)
Chars11 == <<"1", "2", "3", "4", "5", "6", "7", "8", "9", "0", "1">>
Chars14 == <<"1", "2", "3", "4", "5", "6", "7", "8", "0", "0", "0", "1", "9", "9">>

\* rows the sheet 'clientes' may hold
ClientesPlanilha ==
    { [id_cliente |-> 1, nome |-> "Ana", documento |-> Text(Chars11),
       tipo_pessoa |-> None, tipo_contato |-> None],
      [id_cliente |-> 1, nome |-> "Ana Lima", documento |-> Text(formata_cpf(Chars11)),
       tipo_pessoa |-> Text(<<"f", "i", "s", "i", "c", "a">>), tipo_contato |-> Text(<<"T", "e", "l">>)],
      [id_cliente |-> 2, nome |-> "Loja", documento |-> Cell("int", Chars14),
       tipo_pessoa |-> Text(<<"J", "u", "r", "i", "d", "i", "c", "a">>), tipo_contato |-> NaN],
      [id_cliente |-> 2, nome |-> "Mercado", documento |-> Text(Chars11 \o <<" ">> \o Chars11),
       tipo_pessoa |-> Text(JURIDICA), tipo_contato |-> None] }

\* rows the sheet 'vendas' may hold
VendasPlanilha ==
    { [id_venda |-> 10, id_cliente |-> 1, data_venda |-> Date(2024, 3, 15), valor |-> 99999],
      [id_venda |-> 10, id_cliente |-> 2, data_venda |-> Date(2025, 12, 1), valor |-> 19990],
      [id_venda |-> 11, id_cliente |-> 1, data_venda |-> NaT, valor |-> 5005] }

\* the day the runs take place on (datetime.now())
Hoje == {Date(2026, 1, 30)}

SeqsUpTo(S, n) == UNION {[1..k -> S] : k \in 0..n}

(* ------------------------------- state -------------------------------- *)
VARIABLES
    pc,           \* where main() is
    exit_code,    \* -1 while running, then the status of the process
    in_clientes,  \* df_clientes as extracted
    in_vendas,    \* df_vendas as extracted
    clientes,     \* df_clientes_transformado
    vendas,       \* df_vendas_transformado
    i,            \* row the current loop of carregar_dados is at
    db,           \* the committed tables
    tx,           \* the tables as seen inside the open transaction
    db0,          \* history: the committed tables when the run began
    executed,     \* history: the upserts executed in this run, in order
    loaded        \* history: per table and identifier, the record loaded last

vars == <<pc, exit_code, in_clientes, in_vendas, clientes, vendas, i, db, tx, db0, executed, loaded>>

TabelasVazias == [clientes |-> {}, vendas |-> {}]
NadaCarregado == [clientes |-> [k \in {} |-> 0], vendas |-> [k \in {} |-> 0]]

Init ==
    /\ pc = "start"
    /\ exit_code = -1
    /\ in_clientes = <<>>
    /\ in_vendas = <<>>
    /\ clientes = <<>>
    /\ vendas = <<>>
    /\ i = 1
    /\ db = TabelasVazias
    /\ tx = TabelasVazias
    /\ db0 = TabelasVazias
    /\ executed = <<>>
    /\ loaded = [now |-> NadaCarregado, committed |-> NadaCarregado]

\* number of rows the loop of a stage iterates over
Rows(stage) == IF stage = "load_clientes" THEN Len(clientes) ELSE Len(vendas)

\* the loop and row reached from row idx of the k-th loop: an exhausted
\* loop falls through to the next one, the last one to conn.commit()
RECURSIVE Ponto(_, _)
Ponto(k, idx) ==
    IF k > Len(StageOrder) THEN [pc |-> "commit", i |-> 1]
    ELSE IF idx <= Rows(StageOrder[k]) THEN [pc |-> StageOrder[k], i |-> idx]
    ELSE Ponto(k + 1, 1)

StageIndex(stage) == CHOOSE k \in 1..Len(StageOrder) : StageOrder[k] = stage

\* sys.exit(1), or an uncaught exception: the open transaction is never committed
Aborta ==
    /\ pc' = "failed"
    /\ exit_code' = 1
    /\ tx' = db
    /\ loaded' = [loaded EXCEPT !.now = loaded.committed]
    /\ UNCHANGED <<in_clientes, in_vendas, clientes, vendas, i, db, db0, executed>>

(* ------------------------------ actions ------------------------------- *)
\* extrair_dados: both sheets are read
Extrair ==
    /\ pc = "start"
    /\ \E cs \in SeqsUpTo(ClientesPlanilha, MaxRows), vs \in SeqsUpTo(VendasPlanilha, MaxRows) :
        /\ in_clientes' = cs
        /\ in_vendas' = vs
    /\ pc' = "extracted"
    /\ UNCHANGED <<exit_code, clientes, vendas, i, db, tx, db0, executed, loaded>>

\* extrair_dados: the file or a sheet cannot be read
ExtrairFalha ==
    /\ pc = "start"
    /\ Aborta

\* transformar_dados returns the two transformed frames
Transformar ==
    /\ pc = "extracted"
    /\ \E hoje \in Hoje : clientes' = transforma_clientes(in_clientes, hoje)
    /\ vendas' = transforma_vendas(in_vendas)
    /\ pc' = "transformed"
    /\ UNCHANGED <<exit_code, in_clientes, in_vendas, i, db, tx, db0, executed, loaded>>

\* transformar_dados raises, outside the try of main: the .dt accessor needs a
\* datetime column, which the reader infers only from a date cell, and the
\* row-wise apply yields no column for a frame without rows
TransformarFalha ==
    /\ pc = "extracted"
    /\ \/ ~ \E k \in 1..Len(in_vendas) : in_vendas[k].data_venda.kind = "date"
       \/ Len(in_clientes) = 0
    /\ Aborta

\* criar_banco_dados and criar_tabelas; the first statement of carregar_dados
\* then opens the transaction
Conectar ==
    /\ pc = "transformed"
    /\ pc' = Ponto(1, 1).pc
    /\ i' = Ponto(1, 1).i
    /\ tx' = db
    /\ UNCHANGED <<exit_code, in_clientes, in_vendas, clientes, vendas, db, db0, executed, loaded>>

\* the server cannot be reached, or is lost while loading
FalhaConexao ==
    /\ pc \in {"transformed", "load_clientes", "load_vendas", "commit"}
    /\ Aborta

\* one iteration of the loop over df_clientes
UpsertCliente ==
    /\ pc = "load_clientes"
    /\ LET row == clientes[i]
           p == Ponto(StageIndex("load_clientes"), i + 1)
       IN  IF viola_clientes(row) THEN Aborta
           ELSE /\ tx' = [tx EXCEPT !.clientes = upsert_cliente(@, row)]
                /\ db' = IF autocommit THEN tx' ELSE db
                /\ executed' = Append(executed, [tabela |-> "clientes", id |-> row.id_cliente])
                /\ loaded' = [loaded EXCEPT !.now.clientes =
                                 [k \in DOMAIN @ \cup {row.id_cliente} |->
                                     IF k = row.id_cliente THEN row ELSE @[k]]]
                /\ pc' = p.pc
                /\ i' = p.i
                /\ UNCHANGED <<exit_code, in_clientes, in_vendas, clientes, vendas, db0>>

\* one iteration of the loop over df_vendas
UpsertVenda ==
    /\ pc = "load_vendas"
    /\ LET row == vendas[i]
           p == Ponto(StageIndex("load_vendas"), i + 1)
       IN  IF viola_vendas(row, tx.clientes) THEN Aborta
           ELSE /\ tx' = [tx EXCEPT !.vendas = upsert_venda(@, row)]
                /\ db' = IF autocommit THEN tx' ELSE db
                /\ executed' = Append(executed, [tabela |-> "vendas", id |-> row.id_venda])
                /\ loaded' = [loaded EXCEPT !.now.vendas =
                                 [k \in DOMAIN @ \cup {row.id_venda} |->
                                     IF k = row.id_venda THEN row ELSE @[k]]]
                /\ pc' = p.pc
                /\ i' = p.i
                /\ UNCHANGED <<exit_code, in_clientes, in_vendas, clientes, vendas, db0>>

\* conn.commit(), conn.close() and the normal end of main
Commit ==
    /\ pc = "commit"
    /\ db' = tx
    /\ loaded' = [loaded EXCEPT !.committed = loaded.now]
    /\ pc' = "done"
    /\ exit_code' = 0
    /\ UNCHANGED <<in_clientes, in_vendas, clientes, vendas, i, tx, db0, executed>>

\* the script is run again against the same database
NovaExecucao ==
    /\ pc \in {"done", "failed"}
    /\ pc' = "start"
    /\ exit_code' = -1
    /\ in_clientes' = <<>>
    /\ in_vendas' = <<>>
    /\ clientes' = <<>>
    /\ vendas' = <<>>
    /\ i' = 1
    /\ tx' = db
    /\ db0' = db
    /\ executed' = <<>>
    /\ UNCHANGED <<db, loaded>>

Next ==
    \/ Extrair
    \/ ExtrairFalha
    \/ Transformar
    \/ TransformarFalha
    \/ Conectar
    \/ FalhaConexao
    \/ UpsertCliente
    \/ UpsertVenda
    \/ Commit
    \/ NovaExecucao

Spec == Init /\ [][Next]_vars

(* ---------------- the transformation on generated documents ----------- *)
\* n digits in a row, all neighbours different, the first one not zero
DigitRun(start, n) == [k \in 1..n |-> DecimalDigits[((start + k) % 10) + 1]]

Starts == {0, 4}
Styles == {"plain", "cpf", "cnpj", "spaced", "super", "letter"}

\* what a style writes after the k-th digit
SepAfter(style, k) ==
    CASE style = "cpf" /\ k \in {3, 6} -> <<".">>
      [] style = "cpf" /\ k = 9 -> <<"-">>
      [] style = "cnpj" /\ k \in {2, 5} -> <<".">>
      [] style = "cnpj" /\ k = 8 -> <<"/">>
      [] style = "cnpj" /\ k = 12 -> <<"-">>
      [] style = "spaced" -> <<" ">>
      [] style = "super" /\ k = 1 -> <<"²">>
      [] style = "letter" /\ k = 2 -> <<"x", ".">>
      [] OTHER -> <<>>

RECURSIVE Decorate(_, _, _)
Decorate(ds, style, k) ==
    IF k > Len(ds) THEN <<>>
    ELSE <<ds[k]>> \o SepAfter(style, k) \o Decorate(ds, style, k + 1)

Documentos ==
    {None, NaN}
    \cup {Text(Decorate(DigitRun(s, n), st, 1)) : s \in Starts, n \in 0..MaxDigits, st \in Styles}
    \cup {Cell(k, DigitRun(s, n)) : k \in {"int", "float"}, s \in Starts, n \in 1..MaxDigits}

TiposPessoa ==
    { None, NaN, Text(<<>>), Text(FISICA), Text(JURIDICA),
      Text(<<"f", "i", "s", "i", "c", "a">>), Text(<<"F", "i", "s", "i", "c", "a">>),
      Text(<<"j", "u", "r", "i", "d", "i", "c", "a">>), Text(<<"f", "i", "s", "i", "c", "a", " ">>),
      Text(<<"O", "n", "g">>), Cell("int", <<"1">>) }

\* one run stopped after extraction, with one generated person row
InitFmt ==
    /\ pc = "extracted"
    /\ exit_code = -1
    /\ \E d \in Documentos, t \in TiposPessoa :
        in_clientes = <<[id_cliente |-> 1, nome |-> "Ana", documento |-> d,
                         tipo_pessoa |-> t, tipo_contato |-> None]>>
    /\ in_vendas = <<[id_venda |-> 10, id_cliente |-> 1, data_venda |-> Date(2024, 3, 15), valor |-> 99999]>>
    /\ clientes = <<>>
    /\ vendas = <<>>
    /\ i = 1
    /\ db = TabelasVazias
    /\ tx = TabelasVazias
    /\ db0 = TabelasVazias
    /\ executed = <<>>
    /\ loaded = [now |-> NadaCarregado, committed |-> NadaCarregado]

NextFmt == Transformar

SpecFmt == InitFmt /\ [][NextFmt]_vars

(* ------------------------------ properties ---------------------------- *)
\* transformar_dados has returned and its result is still held
Transformado == pc \in {"transformed", "load_clientes", "load_vendas", "commit", "done"}

\* the digit characters of the text of a document, in order; a digit is what
\* the code keeps, str.isdigit
SoDigitos(doc) == SelectSeq(str(doc), str_isdigit)

\* s has the shape pat, where "d" stands for one digit
Casa(s, pat) ==
    /\ Len(s) = Len(pat)
    /\ \A k \in 1..Len(pat) : IF pat[k] = "d" THEN str_isdigit(s[k]) ELSE s[k] = pat[k]

Ausente(doc) == doc.kind \in {"none", "nan"} \/ (doc.kind = "str" /\ Len(doc.chars) = 0)

C3_SemFormato ==
    Transformado =>
        \A k \in 1..Len(in_clientes) :
            LET d == SoDigitos(in_clientes[k].documento)
                tipo == clientes[k].tipo_pessoa
            IN  (/\ ~ Ausente(in_clientes[k].documento)
                 /\ ~ (tipo = Text(FISICA) /\ Len(d) = 11)
                 /\ ~ (tipo = Text(JURIDICA) /\ Len(d) = 14)) =>
                    clientes[k].documento_formatado = Text(d)

C3_Witness ==
    /\ pc = "transformed"
    /\ clientes[1].tipo_pessoa = Text(FISICA)
    /\ in_clientes[1].documento.kind = "str"
    /\ Len(SoDigitos(in_clientes[1].documento)) = 14
    /\ Len(in_clientes[1].documento.chars) = 18
    /\ Len(clientes[1].documento_formatado.chars) = 14

\* C4: documento_formatado is null exactly for the rows whose document is
\* None, NaN or the empty string, whatever the tag
C4_DocumentoAusente ==
    Transformado =>
        \A k \in 1..Len(in_clientes) :
            (clientes[k].documento_formatado = None) <=> Ausente(in_clientes[k].documento)

C4_Witness ==
    /\ pc = "transformed"
    /\ in_clientes[1].documento = Text(<<>>)
    /\ in_clientes[1].tipo_pessoa = Text(JURIDICA)
    /\ clientes[1].documento_formatado = None

\* cs in upper case: every lower-case letter replaced, anything else kept
EmMaiusculas(cs, out) ==
    /\ Len(out) = Len(cs)
    /\ \A k \in 1..Len(cs) :
        IF \E n \in 1..Len(LowerLetters) : LowerLetters[n] = cs[k]
        THEN \E n \in 1..Len(LowerLetters) : LowerLetters[n] = cs[k] /\ out[k] = UpperLetters[n]
        ELSE out[k] = cs[k]

C6_MesmasLinhas ==
    Transformado =>
        /\ Len(clientes) = Len(in_clientes)
        /\ \A k \in 1..Len(in_clientes) : clientes[k].id_cliente = in_clientes[k].id_cliente
        /\ Len(vendas) = Len(in_vendas)
        /\ \A k \in 1..Len(in_vendas) : vendas[k].id_venda = in_vendas[k].id_venda

C6_Witness ==
    /\ pc = "transformed"
    /\ Len(clientes) = 2
    /\ clientes[1].id_cliente # clientes[2].id_cliente
    /\ Len(vendas) = 2
    /\ vendas[1].id_venda = 11
    /\ vendas[1].data_venda = NaT
    /\ vendas[2].id_venda = 10

\* the row of each identifier that the loop over a frame leaves in its table
UltimaCliente(k) == ~ \E n \in (k + 1)..Len(clientes) : clientes[n].id_cliente = clientes[k].id_cliente
UltimaVenda(k) == ~ \E n \in (k + 1)..Len(vendas) : vendas[n].id_venda = vendas[k].id_venda

\* C7: a run commits all of its person and transaction rows and ends with
\* status 0, or it ends with status 1 and the committed tables are those the
\* run began with; until a run has succeeded nothing of it is committed
C7_TudoOuNada ==
    /\ pc # "done" => db = db0
    /\ pc = "failed" => exit_code = 1
    /\ pc = "done" =>
        /\ exit_code = 0
        /\ \A k \in 1..Len(clientes) : UltimaCliente(k) => clientes[k] \in db.clientes
        /\ \A k \in 1..Len(vendas) : UltimaVenda(k) => vendas[k] \in db.vendas

C7_Witness ==
    /\ pc = "failed"
    /\ exit_code = 1
    /\ Len(clientes) = 2
    /\ Len(executed) = 3
    /\ executed[3].tabela = "vendas"
    /\ Len(vendas) = 2
    /\ db = db0
    /\ db.clientes = {}

\* C8: in a run every upsert of a person row is executed before the first
\* upsert of a transaction row, and while transaction rows are upserted
\* every person row of the run is in the table inside the same transaction
C8_ClientesPrimeiro ==
    /\ \A p, q \in 1..Len(executed) :
        (executed[p].tabela = "vendas" /\ executed[q].tabela = "clientes") => q < p
    /\ (\E p \in 1..Len(executed) : executed[p].tabela = "vendas") =>
        /\ Len(executed) >= Len(clientes)
        /\ \A k \in 1..Len(clientes) :
            executed[k] = [tabela |-> "clientes", id |-> clientes[k].id_cliente]
    /\ pc = "load_vendas" =>
        \A k \in 1..Len(clientes) : \E r \in tx.clientes : r.id_cliente = clientes[k].id_cliente

C8_Witness ==
    /\ pc = "load_vendas"
    /\ i = 2
    /\ Len(clientes) = 2
    /\ Len(executed) = 3
    /\ executed[3].tabela = "vendas"

\* each table holds one row per identifier, and it is the record loaded last
UmRegistroPorId(t, ultimo) ==
    /\ \A r1, r2 \in t.clientes : r1.id_cliente = r2.id_cliente => r1 = r2
    /\ \A r1, r2 \in t.vendas : r1.id_venda = r2.id_venda => r1 = r2
    /\ {r.id_cliente : r \in t.clientes} = DOMAIN ultimo.clientes
    /\ {r.id_venda : r \in t.vendas} = DOMAIN ultimo.vendas
    /\ \A r \in t.clientes : r = ultimo.clientes[r.id_cliente]
    /\ \A r \in t.vendas : r = ultimo.vendas[r.id_venda]

\* C9: after any sequence of loads, in one run or over several, each table
\* holds exactly one row per identifier with the values of the record loaded
\* last for it, and loading a stored record again changes nothing
C9_UpsertIdempotente ==
    /\ UmRegistroPorId(tx, loaded.now)
    /\ UmRegistroPorId(db, loaded.committed)
    /\ \A r \in tx.clientes : upsert_cliente(tx.clientes, r) = tx.clientes
    /\ \A r \in tx.vendas : upsert_venda(tx.vendas, r) = tx.vendas

C9_Witness ==
    /\ pc = "done"
    /\ Len(executed) = 4
    /\ executed[1] = executed[2]
    /\ clientes[1] # clientes[2]
    /\ executed[3] = executed[4]
    /\ vendas[1] # vendas[2]
    /\ \E r \in db0.clientes : r.id_cliente = clientes[1].id_cliente /\ r # clientes[2]

TemDataFaltando == \E k \in 1..Len(in_vendas) : in_vendas[k].data_venda.kind # "date"

\* C10: a run whose transactions include one without data_venda never
\* succeeds: it ends with status 1; and no stored transaction row lacks its
\* date, or has a month or year that is missing or not that of its date
C10_DataFaltando ==
    /\ TemDataFaltando => (pc # "done" /\ exit_code # 0 /\ (pc = "failed" => exit_code = 1))
    /\ \A r \in db.vendas \cup tx.vendas :
        /\ r.data_venda.kind = "date"
        /\ r.mes_venda = Num(r.data_venda.m)
        /\ r.ano_venda = Num(r.data_venda.y)

C10_Witness ==
    /\ pc = "failed"
    /\ exit_code = 1
    /\ Len(vendas) = 2
    /\ vendas[1].data_venda.kind = "date"
    /\ vendas[2].data_venda = NaT
    /\ vendas[2].mes_venda = NumNaN
    /\ Len(executed) = Len(clientes) + 1
    /\ i = 2
    /\ db.vendas = {}

====
